---- MODULE Spec2Model ----
(***************************************************************************)
(* Model of utils/torsion_submit/monitor_torsiondrives.py: the             *)
(* TorsionMonitor object, the driver main() that sequences its methods,    *)
(* the two side files (download ledger, error log) and the per-job output  *)
(* files.  One run of the driver is                                        *)
(*   __init__/load_checkpoint -> get_update -> log_error -> print_status   *)
(*   -> print_progress -> download_complete,                               *)
(* and the files outlive the run.  The remote client is the environment:   *)
(* each query is answered by a bounded list of records chosen              *)
(* nondeterministically.  The service applies the id filter of the query,  *)
(* so a returned record belongs to a requested id, or carries an id that   *)
(* is no key of the job dictionary (ForeignId); it may leave requested     *)
(* ids unanswered.                                                         *)
(***************************************************************************)
EXTENDS Integers, Sequences, FiniteSets, TLC

\* ---------------------------------------------------------------- bounds
NumJobs == 2          \* dihedral entries in the checkpoint
MaxRecs == 2          \* records in one query response
MaxProgress == 1      \* longest optimization_history
MaxGrid == 1          \* grid points of one torsion drive record
MaxRuns == 2          \* invocations of the driver

\* ---------------------------------------------------------------- values
NoId == 0             \* Python None for job['id'] (dihedral without 'jobid')
NoProgress == -1      \* job dict without the key 'progress'

Jobs == 1..NumJobs
IdOf(j) == j          \* the jobid the checkpoint stores for dihedral j
ForeignId == NumJobs + 1

\* record.status.value / record_dict['status']: the known values of an open
\* enumeration
RemoteStatuses == {"INCOMPLETE", "COMPLETE", "ERROR"}
Drivers == {"gradient", "energy"}

VARIABLES
  ckpt,               \* the checkpoint file: per dihedral its status and jobid
  td_jobs,            \* self.td_jobs
  downloaded_json,    \* the file <out_folder>/downloaded.json
  error_file,         \* the file monitor_error_jobs.json
  gradxyz,            \* jobs whose <name>.gradxyz exists
  pc,                 \* position of the driver
  raised,             \* exception that ended the run, "none" otherwise
  run,                \* number of the current invocation
  nrec,               \* records consumed of the response being iterated
  ledger_read,        \* ledger entries get_update read in this run
  query_job_ids,      \* id list of the procedure query of get_update
  incomplete_job_ids, \* id list of the service query of get_update
  complete_ids,       \* id list of the query of download_complete
  proc_returned,      \* per job: the status the procedure query returned last
  td_after_proc,      \* td_jobs when the procedure loop ended
  svc_ioerror,        \* the service query raised IOError in this run
  last_unknown,       \* the record just handled had an unknown id: where
  complete_on_entry,  \* jobs COMPLETE when download_complete was entered
  dl_returned,        \* jobs download_complete got a record for
  mismatch,           \* the job whose download hit the assertion of line 184
  written,            \* jobs whose .xyz/.pdf were (re)written in this run
  error_file_before,  \* error log as log_error found it
  ledger_written      \* td_jobs snapshot the last ledger write was taken from

files == <<downloaded_json, error_file, gradxyz>>
hist == <<ledger_read, query_job_ids, incomplete_job_ids, complete_ids,
          proc_returned, td_after_proc, svc_ioerror, last_unknown,
          complete_on_entry, dl_returned, mismatch, written,
          error_file_before, ledger_written>>
vars == <<ckpt, td_jobs, downloaded_json, error_file, gradxyz, pc, raised,
          run, nrec, ledger_read, query_job_ids, incomplete_job_ids,
          complete_ids, proc_returned, td_after_proc, svc_ioerror,
          last_unknown, complete_on_entry, dl_returned, mismatch, written,
          error_file_before, ledger_written>>

NoFile == [exists |-> FALSE, text |-> <<>>]

\* ------------------------------------------------------------ pure helpers
RECURSIVE SelectIdx(_, _)
\* indices of a list in list order (a list comprehension's iteration order)
SelectIdx(n, S) ==
  IF n = 0 THEN <<>>
  ELSE IF n \in S THEN Append(SelectIdx(n - 1, S), n) ELSE SelectIdx(n - 1, S)

\* json.dump of a list of job dicts: one tuple of the dict's items per job;
\* a key the dict lacks ('progress', 'error', 'saved_file') is not written
json_dump(jobs) ==
  [i \in 1..Len(jobs) |->
     <<jobs[i].name, jobs[i].id, jobs[i].status, jobs[i].progress,
       jobs[i].error, jobs[i].saved_file>>]

\* json.load of such a file
json_load(text) ==
  [i \in 1..Len(text) |->
     [name |-> text[i][1], id |-> text[i][2], status |-> text[i][3],
      progress |-> text[i][4], error |-> text[i][5], saved_file |-> text[i][6]]]

\* load_checkpoint: one job per dihedral
load_checkpoint(state) ==
  [j \in Jobs |->
     [name |-> j, id |-> state[j].jobid, status |-> state[j].status,
      progress |-> NoProgress, error |-> "none", saved_file |-> FALSE]]

\* get_update, line 73: keys of d_id_jobs
d_id_jobs(jobs) == {jobs[j].id : j \in {k \in Jobs : jobs[k].id # NoId}}

\* d_id_jobs[job_id]
JobOfId(jobs, job_id) == CHOOSE j \in Jobs : jobs[j].id = job_id

\* ------------------------------------------------- get_update (lines 72-112)
RECURSIVE ApplyLedger_StatusOnly(_, _)
\* ApplyLedger without line 85: the recorded progress is not loaded
ApplyLedger_StatusOnly(jobs, entries) ==
  IF entries = <<>> THEN jobs
  ELSE LET e == Head(entries)
           j == JobOfId(jobs, e.id)
           upd == IF e.id \in d_id_jobs(jobs)
                  THEN [jobs EXCEPT ![j].status = "DOWNLOADED"]
                  ELSE jobs
       IN ApplyLedger_StatusOnly(upd, Tail(entries))

RECURSIVE ApplyLedger(_, _)
\* lines 78-85: every ledger entry whose id is a key of d_id_jobs forces the
\* job to DOWNLOADED with the recorded progress
ApplyLedger(jobs, entries) ==
  IF entries = <<>> THEN jobs
  ELSE LET e == Head(entries)
           j == JobOfId(jobs, e.id)
           upd == IF e.id \in d_id_jobs(jobs)
                  THEN [jobs EXCEPT ![j].status = "DOWNLOADED",
                                    ![j].progress = e.progress]
                  ELSE jobs
       IN ApplyLedger(upd, Tail(entries))

\* line 85: downloaded_job_dict['progress'] of an entry written without it
LedgerKeyError(jobs, entries) ==
  \E i \in 1..Len(entries) :
     entries[i].id \in d_id_jobs(jobs) /\ entries[i].progress = NoProgress

\* QueryJobIds without the filter on DOWNLOADED
QueryJobIds_Unfiltered(jobs) == d_id_jobs(jobs)

\* line 87
QueryJobIds(jobs) ==
  {i \in d_id_jobs(jobs) : jobs[JobOfId(jobs, i)].status # "DOWNLOADED"}

\* IncompleteJobIds with the test "is not COMPLETE"
IncompleteJobIds_NotComplete(jobs) ==
  {i \in d_id_jobs(jobs) : jobs[JobOfId(jobs, i)].status # "COMPLETE"}

\* line 94
IncompleteJobIds(jobs) ==
  {i \in d_id_jobs(jobs) : jobs[JobOfId(jobs, i)].status = "INCOMPLETE"}

\* what client.query_procedures(id=ids) can yield, one record
ProcRecords(ids) ==
  [id : ids \cup {ForeignId}, status : RemoteStatuses, history : 0..MaxProgress]

\* what client.query_services(procedure_id=ids, ...) can yield, one record
ServiceRecords(ids) ==
  [procedure_id : ids \cup {ForeignId}, status : RemoteStatuses,
   history : 0..MaxProgress]

\* lines 89-92, for a record whose id is a key of d_id_jobs
ApplyProcRecord(jobs, rec) ==
  LET j == JobOfId(jobs, rec.id)
  IN [jobs EXCEPT ![j].status = rec.status, ![j].progress = rec.history]

\* lines 103-112: the body of the service loop with its catch-all except
ApplyServiceRecord(jobs, rec) ==
  IF rec.procedure_id \notin d_id_jobs(jobs)
  THEN jobs                       \* KeyError at line 104, printed at line 112
  ELSE LET j == JobOfId(jobs, rec.procedure_id)
       IN [jobs EXCEPT ![j].status = rec.status,
                       ![j].progress = rec.history,
                       ![j].error = IF rec.status = "ERROR" THEN "err"
                                    ELSE jobs[j].error]

\* the service query without its except clause
ServiceQueryFailure_Uncaught == "IOError in get_update"

\* lines 98-101: the except branch of the service query; what get_update
\* raises from it
ServiceQueryFailure == "none"

\* ----------------------------------------------- log_error (lines 114-120)
ErrorJobs(jobs) ==
  LET idx == SelectIdx(NumJobs, {j \in Jobs : jobs[j].status = "ERROR"})
  IN [i \in 1..Len(idx) |-> jobs[idx[i]]]

\* LogErrorFile with the file opened for appending
LogErrorFile_Append(jobs, old) ==
  IF ErrorJobs(jobs) # <<>>
  THEN [exists |-> TRUE, text |-> old.text \o json_dump(ErrorJobs(jobs))]
  ELSE old

LogErrorFile(jobs, old) ==
  IF ErrorJobs(jobs) # <<>>
  THEN [exists |-> TRUE, text |-> json_dump(ErrorJobs(jobs))]
  ELSE old

\* ------------------------------------------ print_progress (lines 129-133)
\* line 132: j['progress'] for every job
ProgressKeyError(jobs) == \E j \in Jobs : jobs[j].progress = NoProgress

\* --------------------------------------- download_complete (lines 145-202)
\* d_complete_id_jobs that also takes the jobs already DOWNLOADED
d_complete_id_jobs_WithDownloaded(jobs) ==
  {j \in Jobs : jobs[j].status \in {"COMPLETE", "DOWNLOADED"}}

\* line 148: the jobs of d_complete_id_jobs
d_complete_id_jobs(jobs) == {j \in Jobs : jobs[j].status = "COMPLETE"}

\* line 151: list(d_complete_id_jobs), its keys (None included)
CompleteIds(jobs) == {jobs[j].id : j \in d_complete_id_jobs(jobs)}

\* d_complete_id_jobs[record.id]; entry: the jobs the dictionary was built from
CompleteJobOfId(jobs, entry, job_id) == CHOOSE j \in entry : jobs[j].id = job_id

\* a torsion drive record: its id and the driver of each final result record,
\* in the order of sorted_grid_ids
DownloadRecords(ids) ==
  [id : (ids \ {NoId}) \cup {ForeignId},
   drivers : UNION {[1..n -> Drivers] : n \in 0..MaxGrid}]

\* line 184
WrongJobType(rec) == \E g \in 1..Len(rec.drivers) : rec.drivers[g] # "gradient"

\* line 180: the gradient file is opened for writing before the grid loop
GradFileOpened(files_, j) == files_ \cup {j}

\* DownloadedJobs restricted to the jobs materialized by this call
DownloadedJobs_OnlyNew(jobs) ==
  LET idx == SelectIdx(NumJobs, {j \in Jobs : jobs[j].status = "DOWNLOADED"
                                              /\ jobs[j].saved_file})
  IN [i \in 1..Len(idx) |-> jobs[idx[i]]]

\* line 201
DownloadedJobs(jobs) ==
  LET idx == SelectIdx(NumJobs, {j \in Jobs : jobs[j].status = "DOWNLOADED"})
  IN [i \in 1..Len(idx) |-> jobs[idx[i]]]

\* lines 200-202
WriteLedger(jobs) == [exists |-> TRUE, text |-> json_dump(DownloadedJobs(jobs))]

\* ------------------------------------------------------------ the driver
NoneReturned == [j \in Jobs |-> "none"]

\* a fresh process: nothing of an earlier run is in memory
FreshRun ==
  /\ td_jobs' = load_checkpoint(ckpt)
  /\ pc' = "get_update"
  /\ raised' = "none"
  /\ nrec' = 0
  /\ ledger_read' = <<>>
  /\ query_job_ids' = {}
  /\ incomplete_job_ids' = {}
  /\ complete_ids' = {}
  /\ proc_returned' = NoneReturned
  /\ td_after_proc' = load_checkpoint(ckpt)
  /\ svc_ioerror' = FALSE
  /\ last_unknown' = "none"
  /\ complete_on_entry' = {}
  /\ dl_returned' = {}
  /\ mismatch' = {}
  /\ written' = {}

Init ==
  /\ ckpt \in {c \in [Jobs -> [status : RemoteStatuses, jobid : {NoId} \cup Jobs]] :
                 \A j \in Jobs : c[j].jobid \in {NoId, IdOf(j)}}
  /\ td_jobs = load_checkpoint(ckpt)
  /\ downloaded_json = NoFile
  /\ error_file = NoFile
  /\ gradxyz = {}
  /\ pc = "get_update"
  /\ raised = "none"
  /\ run = 1
  /\ nrec = 0
  /\ ledger_read = <<>>
  /\ query_job_ids = {}
  /\ incomplete_job_ids = {}
  /\ complete_ids = {}
  /\ proc_returned = NoneReturned
  /\ td_after_proc = load_checkpoint(ckpt)
  /\ svc_ioerror = FALSE
  /\ last_unknown = "none"
  /\ complete_on_entry = {}
  /\ dl_returned = {}
  /\ mismatch = {}
  /\ written = {}
  /\ error_file_before = NoFile
  /\ ledger_written = <<>>

\* main() run again over the same checkpoint (lines 242, 15-19, 21-41)
NextRun ==
  /\ pc = "exit"
  /\ run < MaxRuns
  /\ run' = run + 1
  /\ FreshRun
  /\ error_file_before' = NoFile
  /\ UNCHANGED <<ckpt, files, ledger_written>>

\* the run ends with an uncaught exception
Abort(what) ==
  /\ pc' = "exit"
  /\ raised' = what

\* get_update, lines 73-87: the ledger pass and the id list of the first query
ReadLedger ==
  /\ pc = "get_update"
  /\ LET entries == IF downloaded_json.exists
                    THEN json_load(downloaded_json.text) ELSE <<>>
     IN /\ ledger_read' = entries
        /\ IF LedgerKeyError(td_jobs, entries)
           THEN /\ Abort("KeyError in get_update")
                /\ UNCHANGED <<td_jobs, query_job_ids>>
           ELSE /\ td_jobs' = ApplyLedger(td_jobs, entries)
                /\ query_job_ids' = QueryJobIds(td_jobs')
                /\ pc' = "proc_loop"
                /\ UNCHANGED raised
  /\ UNCHANGED <<ckpt, files, run, nrec, incomplete_job_ids, complete_ids,
                 proc_returned, td_after_proc, svc_ioerror, last_unknown,
                 complete_on_entry, dl_returned, mismatch, written, error_file_before,
                 ledger_written>>

\* get_update, lines 88-92: one iteration of the procedure loop
ProcRecord ==
  /\ pc = "proc_loop"
  /\ nrec < MaxRecs
  /\ \E rec \in ProcRecords(query_job_ids) :
       IF rec.id \in d_id_jobs(td_jobs)
       THEN /\ td_jobs' = ApplyProcRecord(td_jobs, rec)
            /\ proc_returned' =
                 [proc_returned EXCEPT ![JobOfId(td_jobs, rec.id)] = rec.status]
            /\ nrec' = nrec + 1
            /\ last_unknown' = "none"
            /\ UNCHANGED <<pc, raised>>
       ELSE /\ Abort("KeyError in get_update")   \* line 89
            /\ last_unknown' = "procedure query"
            /\ UNCHANGED <<td_jobs, proc_returned, nrec>>
  /\ UNCHANGED <<ckpt, files, run, ledger_read, query_job_ids,
                 incomplete_job_ids, complete_ids, td_after_proc, svc_ioerror,
                 complete_on_entry, dl_returned, mismatch, written, error_file_before,
                 ledger_written>>

\* the procedure response is exhausted; lines 94-95
ProcEnd ==
  /\ pc = "proc_loop"
  /\ pc' = "svc_query"
  /\ nrec' = 0
  /\ incomplete_job_ids' = IncompleteJobIds(td_jobs)
  /\ td_after_proc' = td_jobs
  /\ last_unknown' = "none"
  /\ UNCHANGED <<ckpt, td_jobs, files, raised, run, ledger_read, query_job_ids,
                 complete_ids, proc_returned, svc_ioerror, complete_on_entry,
                 dl_returned, mismatch, written, error_file_before, ledger_written>>

\* lines 96-101: query_services raises IOError; record_list = [] and the loop
\* of line 102 has nothing to do
SvcQueryFails ==
  /\ pc = "svc_query"
  /\ svc_ioerror' = TRUE
  /\ IF ServiceQueryFailure = "none"
     THEN pc' = "log_error" /\ UNCHANGED raised
     ELSE Abort(ServiceQueryFailure)
  /\ UNCHANGED <<ckpt, td_jobs, files, run, nrec, ledger_read, query_job_ids,
                 incomplete_job_ids, complete_ids, proc_returned, td_after_proc,
                 last_unknown, complete_on_entry, dl_returned, mismatch, written,
                 error_file_before, ledger_written>>

\* line 97: query_services returns
SvcQueryReturns ==
  /\ pc = "svc_query"
  /\ pc' = "svc_loop"
  /\ UNCHANGED <<ckpt, td_jobs, files, raised, run, nrec, ledger_read,
                 query_job_ids, incomplete_job_ids, complete_ids, proc_returned,
                 td_after_proc, svc_ioerror, last_unknown, complete_on_entry,
                 dl_returned, mismatch, written, error_file_before, ledger_written>>

\* lines 102-112: one iteration of the service loop
SvcRecord ==
  /\ pc = "svc_loop"
  /\ nrec < MaxRecs
  /\ \E rec \in ServiceRecords(incomplete_job_ids) :
       /\ td_jobs' = ApplyServiceRecord(td_jobs, rec)
       /\ last_unknown' = IF rec.procedure_id \in d_id_jobs(td_jobs)
                          THEN "none" ELSE "service query"
  /\ nrec' = nrec + 1
  /\ UNCHANGED <<ckpt, files, pc, raised, run, ledger_read, query_job_ids,
                 incomplete_job_ids, complete_ids, proc_returned, td_after_proc,
                 svc_ioerror, complete_on_entry, dl_returned, mismatch, written,
                 error_file_before, ledger_written>>

\* the service response is exhausted: get_update returns
SvcEnd ==
  /\ pc = "svc_loop"
  /\ pc' = "log_error"
  /\ nrec' = 0
  /\ last_unknown' = "none"
  /\ UNCHANGED <<ckpt, td_jobs, files, raised, run, ledger_read, query_job_ids,
                 incomplete_job_ids, complete_ids, proc_returned, td_after_proc,
                 svc_ioerror, complete_on_entry, dl_returned, mismatch, written,
                 error_file_before, ledger_written>>

\* log_error, lines 114-120 (the locals of get_update are gone by now)
LogError ==
  /\ pc = "log_error"
  /\ error_file_before' = error_file
  /\ error_file' = LogErrorFile(td_jobs, error_file)
  /\ pc' = "print_status"
  /\ query_job_ids' = {}
  /\ incomplete_job_ids' = {}
  /\ proc_returned' = NoneReturned
  /\ td_after_proc' = load_checkpoint(ckpt)
  /\ svc_ioerror' = FALSE
  /\ UNCHANGED <<ckpt, td_jobs, downloaded_json, gradxyz, raised, run, nrec,
                 ledger_read, complete_ids, last_unknown,
                 complete_on_entry, dl_returned, mismatch, written, ledger_written>>

\* print_status, lines 122-127: output only
PrintStatus ==
  /\ pc = "print_status"
  /\ pc' = "print_progress"
  /\ UNCHANGED <<ckpt, td_jobs, files, raised, run, nrec, hist>>

\* print_progress, lines 129-143: reads j['progress'] of every job
PrintProgress ==
  /\ pc = "print_progress"
  /\ IF ProgressKeyError(td_jobs)
     THEN Abort("KeyError in print_progress")
     ELSE pc' = "download_complete" /\ UNCHANGED raised
  /\ UNCHANGED <<ckpt, td_jobs, files, run, nrec, hist>>

\* download_complete, lines 146-151: the id list of the materialization query
DownloadStart ==
  /\ pc = "download_complete"
  /\ complete_ids' = CompleteIds(td_jobs)
  /\ complete_on_entry' = d_complete_id_jobs(td_jobs)
  /\ pc' = "download_loop"
  /\ nrec' = 0
  /\ UNCHANGED <<ckpt, td_jobs, files, raised, run, ledger_read, query_job_ids,
                 incomplete_job_ids, proc_returned, td_after_proc, svc_ioerror,
                 last_unknown, dl_returned, mismatch, written, error_file_before,
                 ledger_written>>

\* download_complete, lines 151-198: one iteration of the download loop
DownloadRecord ==
  /\ pc = "download_loop"
  /\ nrec < MaxRecs
  /\ \E rec \in DownloadRecords(complete_ids) :
       IF rec.id \notin complete_ids
       THEN /\ Abort("KeyError in download_complete")   \* line 152
            /\ UNCHANGED <<td_jobs, gradxyz, written, dl_returned, mismatch, nrec>>
       ELSE LET j == CompleteJobOfId(td_jobs, complete_on_entry, rec.id)
            IN /\ written' = written \cup {j}              \* lines 168-177
               /\ gradxyz' = GradFileOpened(gradxyz, j) \* line 180
               /\ dl_returned' = dl_returned \cup {j}
               /\ IF WrongJobType(rec)
                  THEN /\ Abort("AssertionError in download_complete")
                       /\ mismatch' = {j}
                       /\ UNCHANGED <<td_jobs, nrec>>
                  ELSE /\ td_jobs' = [td_jobs EXCEPT ![j].status = "DOWNLOADED",
                                                     ![j].saved_file = TRUE]
                       /\ nrec' = nrec + 1
                       /\ UNCHANGED <<pc, raised, mismatch>>
  /\ UNCHANGED <<ckpt, downloaded_json, error_file, run, ledger_read,
                 query_job_ids, incomplete_job_ids, complete_ids, proc_returned,
                 td_after_proc, svc_ioerror, last_unknown, complete_on_entry,
                 error_file_before, ledger_written>>

\* download_complete, lines 199-202: the ledger is rewritten; main() returns
DownloadEnd ==
  /\ pc = "download_loop"
  /\ downloaded_json' = WriteLedger(td_jobs)
  /\ ledger_written' = DownloadedJobs(td_jobs)
  /\ pc' = "exit"
  /\ UNCHANGED <<ckpt, td_jobs, error_file, gradxyz, raised, run, nrec,
                 ledger_read, query_job_ids, incomplete_job_ids, complete_ids,
                 proc_returned, td_after_proc, svc_ioerror, last_unknown,
                 complete_on_entry, dl_returned, mismatch, written, error_file_before>>

Next ==
  \/ NextRun
  \/ ReadLedger
  \/ ProcRecord
  \/ ProcEnd
  \/ SvcQueryFails
  \/ SvcQueryReturns
  \/ SvcRecord
  \/ SvcEnd
  \/ LogError
  \/ PrintStatus
  \/ PrintProgress
  \/ DownloadStart
  \/ DownloadRecord
  \/ DownloadEnd

Spec == Init /\ [][Next]_vars

\* ------------------------------------------------------------ properties
InGetUpdate == pc \in {"proc_loop", "svc_query", "svc_loop", "log_error"}
ReturnedNormally == pc = "exit" /\ raised = "none"

\* the jobs whose id appears in an entry of the ledger get_update read
LedgerJobs ==
  {j \in Jobs : td_jobs[j].id # NoId
                /\ \E i \in 1..Len(ledger_read) : ledger_read[i].id = td_jobs[j].id}
LedgerEntry(j) ==
  ledger_read[CHOOSE i \in 1..Len(ledger_read) : ledger_read[i].id = td_jobs[j].id]
StatusDownloaded == {j \in Jobs : td_jobs[j].status = "DOWNLOADED"}

C2_OnlyReportedIncomplete ==
  pc \in {"svc_query", "svc_loop"} =>
    \A i \in incomplete_job_ids :
       proc_returned[JobOfId(td_jobs, i)] = "INCOMPLETE"

\* C2 amended: an id is in the id list of the service query only if the job is
\* not a ledger job and its status after the procedure loop is INCOMPLETE:
\* the last record the procedure query returned for it said INCOMPLETE, or
\* the query returned no record for it and the checkpoint says INCOMPLETE.
C2_OnlyIncompleteAfterProcedureLoop ==
  pc \in {"svc_query", "svc_loop"} =>
    \A i \in incomplete_job_ids :
       LET j == JobOfId(td_jobs, i)
       IN /\ j \notin LedgerJobs
          /\ \/ proc_returned[j] = "INCOMPLETE"
             \/ proc_returned[j] = "none" /\ ckpt[j].status = "INCOMPLETE"

\* C2 witness: the service query is sent a job the procedure query was silent
\* about, and not a job the procedure query reported COMPLETE or ERROR.
C2_Witness ==
  /\ pc = "svc_query"
  /\ \E i \in incomplete_job_ids : proc_returned[JobOfId(td_jobs, i)] = "none"
  /\ \E j \in Jobs : /\ proc_returned[j] \in {"COMPLETE", "ERROR"}
                     /\ td_jobs[j].id \notin incomplete_job_ids

\* C3: when download_complete fails on a final result record whose driver is
\* not 'gradient', the job's .gradxyz file does not exist afterwards.
C3_NoGradientFileAfterMismatch ==
  raised = "AssertionError in download_complete" =>
    \A j \in mismatch : j \notin gradxyz

\* C4: a record of the procedure query or of the service query whose id
\* matches no job is skipped: get_update does not raise and no job record
\* changes.
C4_UnknownRecordSkipped ==
  [][last_unknown' # "none" => raised' = "none" /\ td_jobs' = td_jobs]_vars

\* C5 as stated: after download_complete returns normally every job that was
\* COMPLETE on entry is DOWNLOADED, and the ledger file holds exactly the
\* DOWNLOADED jobs.
C5_EveryCompleteJobDownloaded ==
  ReturnedNormally =>
    LET ledger == json_load(downloaded_json.text)
    IN /\ \A j \in complete_on_entry : td_jobs[j].status = "DOWNLOADED"
       /\ downloaded_json.exists
       /\ {ledger[i].name : i \in 1..Len(ledger)} = StatusDownloaded

\* C5 amended: after download_complete returns normally every job that was
\* COMPLETE on entry and that the materialization query returned a record for
\* is DOWNLOADED, a COMPLETE job without a record is still COMPLETE, and the
\* ledger file holds one entry for each job that is DOWNLOADED now (just
\* materialized or marked from the earlier ledger) and nothing else.
C5_ReturnedCompleteJobsDownloaded ==
  ReturnedNormally =>
    LET ledger == json_load(downloaded_json.text)
    IN /\ \A j \in complete_on_entry \cap dl_returned :
             td_jobs[j].status = "DOWNLOADED"
       /\ \A j \in complete_on_entry \ dl_returned :
             td_jobs[j].status = "COMPLETE"
       /\ downloaded_json.exists
       /\ {ledger[i].name : i \in 1..Len(ledger)} = StatusDownloaded
       /\ Len(ledger) = Cardinality(StatusDownloaded)
       /\ \A i \in 1..Len(ledger) : ledger[i] = td_jobs[ledger[i].name]
       /\ LedgerJobs \subseteq StatusDownloaded

\* C5 witness: download_complete returns after materializing a job in a run
\* that found another job in the earlier ledger.
C5_Witness ==
  /\ ReturnedNormally
  /\ complete_on_entry \cap dl_returned # {}
  /\ LedgerJobs # {}

\* C6: when the service query raises IOError, get_update returns normally and
\* every job record is as the procedure loop left it.
C6_ServiceQueryFailureIsNotFatal ==
  svc_ioerror => /\ raised = "none"
                 /\ pc = "log_error"
                 /\ td_jobs = td_after_proc

\* C6 witness: the service query for a non-empty list of INCOMPLETE jobs failed.
C6_Witness ==
  /\ svc_ioerror
  /\ incomplete_job_ids # {}
  /\ \E j \in Jobs : td_jobs[j].status = "INCOMPLETE" /\ td_jobs[j].progress # NoProgress

\* C7: after get_update has read the ledger the previous download_complete
\* wrote (same checkpoint), the jobs marked DOWNLOADED are the jobs written,
\* each with the id and the progress it had when written.
C7_LedgerRoundTrip ==
  pc \in {"proc_loop", "svc_query", "svc_loop", "log_error", "print_status",
          "print_progress", "download_complete"} =>
    /\ StatusDownloaded = {ledger_written[i].name : i \in 1..Len(ledger_written)}
    /\ \A i \in 1..Len(ledger_written) :
          LET j == ledger_written[i].name
          IN /\ td_jobs[j].id = ledger_written[i].id
             /\ td_jobs[j].progress = ledger_written[i].progress

\* C7 witness: a later run has read back a ledger with an entry.
C7_Witness ==
  /\ run > 1
  /\ pc = "log_error"
  /\ ledger_written # <<>>
  /\ \E i \in 1..Len(ledger_written) : ledger_written[i].progress > 0

\* C8 as stated: after log_error the error log lists exactly the job records
\* whose status is ERROR in this run.
C8_ErrorLogIsSnapshot ==
  pc = "print_status" => json_load(error_file.text) = ErrorJobs(td_jobs)

\* C8 amended: after log_error in a run with at least one ERROR job the error
\* log lists exactly the ERROR job records of this run; in a run without an
\* ERROR job log_error leaves the file as it found it.
C8_ErrorLogSnapshotWhenErrors ==
  pc = "print_status" =>
    IF ErrorJobs(td_jobs) # <<>>
    THEN error_file.exists /\ json_load(error_file.text) = ErrorJobs(td_jobs)
    ELSE error_file = error_file_before

\* C8 witness: log_error has replaced the error log of an earlier run by the
\* different ERROR jobs of this run.
C8_Witness ==
  /\ pc = "print_status"
  /\ run > 1
  /\ error_file_before.exists
  /\ ErrorJobs(td_jobs) # <<>>
  /\ error_file # error_file_before

\* C9: within a run the id of a ledger job is in none of the three id lists
\* (procedure query, service query, materialization query) and its output
\* files are not rewritten.
C9_LedgerJobNotRequeried ==
  \A j \in LedgerJobs : /\ td_jobs[j].id \notin query_job_ids
                        /\ td_jobs[j].id \notin incomplete_job_ids
                        /\ td_jobs[j].id \notin complete_ids
                        /\ j \notin written

\* C9 witness: a run with a ledger job has queried and materialized another job.
C9_Witness ==
  /\ ReturnedNormally
  /\ LedgerJobs # {}
  /\ written # {}
  /\ complete_ids # {}

\* C10: once get_update has returned normally every job carries a progress
\* value, and print_progress does not fail.
C10_ProgressAlwaysPresent ==
  /\ pc \in {"log_error", "print_status", "print_progress"} =>
       \A j \in Jobs : td_jobs[j].progress # NoProgress
  /\ raised # "KeyError in print_progress"
====
